---- MODULE Spec2Model ----
(***************************************************************************)
(* Verification model of the 9router gateway sources:                      *)
(*   - the Responses API -> Chat Completions request translator            *)
(*     (openaiResponsesToOpenAIRequest),                                   *)
(*   - the project ID service (getProjectIdForConnection, fetchProjectId,  *)
(*     onboardUser, invalidateProjectId).                                  *)
(*                                                                         *)
(* JavaScript values whose kind varies are tagged records:                 *)
(*   [str |-> s] a string, [arr |-> <<..>>] an array, [obj |-> r] a plain  *)
(*   object, [undef |-> TRUE] undefined, [null |-> TRUE] null.             *)
(* A JavaScript object is a function from its own field names to values;   *)
(* a field the object does not have is not in its DOMAIN.                  *)
(***************************************************************************)
EXTENDS Integers, Sequences, FiniteSets, TLC

VARIABLES
    \* ---- translator ----
    tBody,      \* the caller's body object (the heap cell the argument points to)
    tOrig,      \* the value of that object before the call
    tResult,    \* the object the call returned
    tSame,      \* TRUE when the returned object is the caller's object itself
    tpc,        \* "ready" before the call, "done" after it
    \* ---- project ID service ----
    projectIdCache,  \* connectionId -> NoEntry or [projectId, fetchedAt]
    pendingFetches,  \* connectionId -> the registered promise (a fetch id), 0 for none
    fetches,         \* fetch id -> the state of an async fetch that has not settled
    nextFid,         \* number of fetches started so far
    now,             \* Date.now()
    ticks,           \* number of clock advances so far
    ev,              \* the last call or settlement, as its caller observes it
    \* ---- fallback orchestrator (one client request) ----
    combo,           \* the resolved chain: [models |-> N, accounts |-> M]
    ostate,          \* the state of the request's state machine
    candidate,       \* the current <<model, account>>, by position in the chain
    failure,         \* what the last attempt was observed to end with
    attemptOutcome,  \* the AttemptOutcome assigned to the last attempt
    refreshCalls,    \* refreshCredential calls made for the current account
    retries,         \* immediate transient retries made on the current account
    attempts,        \* number of Executor invocations so far
    allFatal,        \* TRUE while every attempt so far was classified fatal
    fatalModels,     \* the models an attempt was classified fatal-for-model on
    left,            \* the candidates the request has moved on from
    \* ---- machine ID ----
    cachedRawMachineId,    \* the module variable, Null until the first call
    machineIdErrorLogged,  \* the module variable
    env,                   \* the machine and environment the process runs in
    ids,                   \* salt -> the IDs getConsistentMachineId has returned for it
    runs,                  \* number of processes started so far
    \* ---- cloud sync initialization ----
    initialized,     \* the module variable
    syncCalls        \* call id -> the state of an ensureCloudSyncInitialized call

tvars == <<tBody, tOrig, tResult, tSame, tpc>>

pvars == <<projectIdCache, pendingFetches, fetches, nextFid, now, ticks, ev>>

ovars == <<combo, ostate, candidate, failure, attemptOutcome, refreshCalls,
           retries, attempts, allFatal, fatalModels, left>>

mvars == <<cachedRawMachineId, machineIdErrorLogged, env, ids, runs>>

svars == <<initialized, syncCalls>>

vars == <<tBody, tOrig, tResult, tSame, tpc,
          projectIdCache, pendingFetches, fetches, nextFid, now, ticks, ev,
          combo, ostate, candidate, failure, attemptOutcome, refreshCalls,
          retries, attempts, allFatal, fatalModels, left,
          cachedRawMachineId, machineIdErrorLogged, env, ids, runs,
          initialized, syncCalls>>

(***************************************************************************)
(* Bounds                                                                  *)
(***************************************************************************)
MaxItems == 3

MaxFetches == 2

MaxTicks == 2

(***************************************************************************)
(* JavaScript value helpers                                                *)
(***************************************************************************)
Undefined == [undef |-> TRUE]

Null == [null |-> TRUE]

Str(s) == [str |-> s]

Arr(a) == [arr |-> a]

IsArray(v) == "arr" \in DOMAIN v

IsString(v) == "str" \in DOMAIN v

\* obj.f : the field's value, undefined when the object has no such field
Get(o, f) == IF f \in DOMAIN o THEN o[f] ELSE Undefined

\* JavaScript truthiness of a tagged value: undefined, null and "" are falsy
Truthy(v) ==
    IF "undef" \in DOMAIN v \/ "null" \in DOMAIN v THEN FALSE
    ELSE IF "str" \in DOMAIN v THEN v.str # ""
    ELSE TRUE

\* obj.f = v
Put(o, f, v) == (f :> v) @@ o

\* delete obj.f
Delete(o, f) == [g \in (DOMAIN o) \ {f} |-> o[g]]

\* JSON.stringify on the object values the model draws for item.output
JSONstringify(v) ==
    IF "obj" \in DOMAIN v
    THEN (IF v.obj = [ok |-> TRUE] THEN "{\"ok\":true}" ELSE "{}")
    ELSE "null"

Last(s) == s[Len(s)]

(***************************************************************************)
(* Translator: OpenAI Responses API -> OpenAI Chat Completions             *)
(***************************************************************************)

\* The characters a for..of loop over a string input yields (the model draws
\* only the strings "" and "hi" for a string-valued input).
StringChars(s) == IF s = "hi" THEN <<Str("h"), Str("i")>> ELSE <<>>

\* for (const item of body.input): the elements of an array, the characters
\* of a string
ItemsOf(input) == IF IsArray(input) THEN input.arr ELSE StringChars(input.str)

\* item.type, "undefined" when the item has no such field
ItemType(item) == IF "type" \in DOMAIN item THEN item.type ELSE "undefined"

\* input_text -> text, output_text -> text, any other part is kept
ConvertPart(c) ==
    IF ItemType(c) = "input_text" THEN [type |-> "text", text |-> c.text]
    ELSE IF ItemType(c) = "output_text" THEN [type |-> "text", text |-> c.text]
    ELSE c

ConvertContent(content) ==
    IF IsArray(content)
    THEN Arr([i \in 1..Len(content.arr) |-> ConvertPart(content.arr[i])])
    ELSE content

\* if (currentAssistantMsg) { push; currentAssistantMsg = null }
FlushAssistant(st) ==
    IF st.currentAssistantMsg # Null
    THEN [st EXCEPT !.messages = Append(@, st.currentAssistantMsg),
                    !.currentAssistantMsg = Null]
    ELSE st

\* if (pendingToolResults.length > 0) { push each; pendingToolResults = [] }
FlushToolResults(st) ==
    IF Len(st.pendingToolResults) > 0
    THEN [st EXCEPT !.messages = @ \o st.pendingToolResults,
                    !.pendingToolResults = <<>>]
    ELSE st

\* mutant: the message is emitted without closing the open assistant message
OnMessageNoFlush(st, item) ==
    [st EXCEPT !.messages =
        Append(@, [role |-> item.role, content |-> ConvertContent(item.content)])]

\* item.type === "message"
OnMessage(st, item) ==
    LET flushed == FlushToolResults(FlushAssistant(st))
    IN [flushed EXCEPT !.messages =
            Append(@, [role |-> item.role, content |-> ConvertContent(item.content)])]

\* mutant: the arguments string is not carried over
ToolCallNoArguments(item) ==
    [id |-> item.call_id, type |-> "function",
     function |-> [name |-> item.name, arguments |-> ""]]

ToolCall(item) ==
    [id |-> item.call_id, type |-> "function",
     function |-> [name |-> item.name, arguments |-> item.arguments]]

\* mutant: every function_call closes the open assistant message and opens
\* its own
OnFunctionCallAlwaysOpen(st, item) ==
    [FlushAssistant(st) EXCEPT !.currentAssistantMsg =
        [role |-> "assistant", content |-> Null, tool_calls |-> <<ToolCall(item)>>]]

\* item.type === "function_call"
OnFunctionCall(st, item) ==
    LET opened == IF st.currentAssistantMsg = Null
                  THEN [st EXCEPT !.currentAssistantMsg =
                          [role |-> "assistant", content |-> Null, tool_calls |-> <<>>]]
                  ELSE st
    IN [opened EXCEPT !.currentAssistantMsg.tool_calls = Append(@, ToolCall(item))]

ToolMessage(item) ==
    [role |-> "tool", tool_call_id |-> item.call_id,
     content |-> IF IsString(item.output) THEN item.output
                 ELSE Str(JSONstringify(item.output))]

\* mutant: the tool result is buffered until the next flush
OnFunctionCallOutputBuffered(st, item) ==
    [st EXCEPT !.pendingToolResults = Append(@, ToolMessage(item))]

\* item.type === "function_call_output"
OnFunctionCallOutput(st, item) ==
    LET flushed == FlushToolResults(FlushAssistant(st))
    IN [flushed EXCEPT !.messages = Append(@, ToolMessage(item))]

\* one iteration of the loop over body.input
FoldItem(st, item) ==
    IF ItemType(item) = "message" THEN OnMessage(st, item)
    ELSE IF ItemType(item) = "function_call" THEN OnFunctionCall(st, item)
    ELSE IF ItemType(item) = "function_call_output" THEN OnFunctionCallOutput(st, item)
    ELSE IF ItemType(item) = "reasoning" THEN st
    ELSE st

\* the loop state after the first n items
RECURSIVE Fold(_, _, _)
Fold(st, items, n) ==
    IF n = 0 THEN st ELSE FoldItem(Fold(st, items, n - 1), items[n])

\* mutant: the system message is pushed whether or not instructions is set
PushInstructionsAlways(body) ==
    <<[role |-> "system", content |-> Get(body, "instructions")]>>

\* result.messages = []; if (body.instructions) push the system message
PushInstructions(body) ==
    IF Truthy(Get(body, "instructions"))
    THEN <<[role |-> "system", content |-> Get(body, "instructions")]>>
    ELSE <<>>

\* the loop state before the first item
LoopStart(body) ==
    [messages |-> PushInstructions(body),
     currentAssistantMsg |-> Null,
     pendingToolResults |-> <<>>]

\* the messages list at the end of the pass ("Flush remaining")
Messages(body) ==
    LET items == ItemsOf(Get(body, "input"))
    IN FlushToolResults(FlushAssistant(
           Fold(LoopStart(body), items, Len(items)))).messages

\* mutant: a flat declaration is passed through as it is
ConvertToolKeepFlat(tool) == tool

\* tool => tool.function ? tool : {type: "function", function: {...}}
ConvertTool(tool) ==
    IF Truthy(Get(tool, "function")) THEN tool
    ELSE [type |-> Str("function"),
          function |-> [obj |-> [name        |-> Get(tool, "name"),
                                 description |-> Get(tool, "description"),
                                 parameters  |-> Get(tool, "parameters"),
                                 strict      |-> Get(tool, "strict")]]]

\* if (body.tools && Array.isArray(body.tools)) result.tools = body.tools.map(..)
ConvertTools(result, body) ==
    LET tools == Get(body, "tools")
    IN IF Truthy(tools) /\ IsArray(tools)
       THEN Put(result, "tools",
                Arr([i \in 1..Len(tools.arr) |-> ConvertTool(tools.arr[i])]))
       ELSE result

\* mutant: store is left in the result
CleanupKeepStore(result) ==
    Delete(Delete(Delete(Delete(Delete(result,
        "input"), "instructions"), "include"), "prompt_cache_key"), "reasoning")

\* Cleanup Responses API specific fields
Cleanup(result) ==
    Delete(Delete(Delete(Delete(Delete(Delete(result,
        "input"), "instructions"), "include"), "prompt_cache_key"), "store"),
        "reasoning")

\* mutant: result is the body object itself, not a copy of it
SpreadAlias(heap, src) == [heap |-> heap, ref |-> src]

\* const result = { ...body }: a new object holding the fields of src
SpreadCopy(heap, src) == [heap |-> ("r" :> heap[src]) @@ heap, ref |-> "r"]

\* The whole function on a heap in which "b" is the caller's body object.
\* Yields the heap after the call and the reference returned.
openaiResponsesToOpenAIRequest(body) ==
    LET heap0 == [b |-> body]
    IN IF ~Truthy(Get(body, "input"))
       THEN [heap |-> heap0, ref |-> "b"]
       ELSE
         LET cp    == SpreadCopy(heap0, "b")
             r     == cp.ref
             h1    == [cp.heap EXCEPT ![r] = Put(@, "messages", Arr(<<>>))]
             h2    == [h1 EXCEPT ![r] = Put(@, "messages", Arr(Messages(h1["b"])))]
             h3    == [h2 EXCEPT ![r] = ConvertTools(@, h2["b"])]
             h4    == [h3 EXCEPT ![r] = Cleanup(@)]
         IN [heap |-> h4, ref |-> r]

(***************************************************************************)
(* Inputs of the translator                                                *)
(***************************************************************************)
MessageItems ==
    { [type |-> "message", role |-> "user", content |-> Str("hi")],
      [type |-> "message", role |-> "user",
       content |-> Arr(<<[type |-> "input_text", text |-> "hi"]>>)],
      [type |-> "message", role |-> "assistant",
       content |-> Arr(<<[type |-> "output_text", text |-> "ok"],
                         [type |-> "refusal", refusal |-> "no"]>>)] }

FunctionCallItems ==
    { [type |-> "function_call", call_id |-> "call_1", name |-> "f",
       arguments |-> "{\"a\":1}"],
      [type |-> "function_call", call_id |-> "call_2", name |-> "g",
       arguments |-> "{}"] }

FunctionCallOutputItems ==
    { [type |-> "function_call_output", call_id |-> "call_1", output |-> Str("42")],
      [type |-> "function_call_output", call_id |-> "call_2",
       output |-> [obj |-> [ok |-> TRUE]]] }

ReasoningItems == { [type |-> "reasoning", summary |-> "thinking"] }

UnrecognizedItems == { [type |-> "item_reference", id |-> "msg_1"] }

KnownItems ==
    MessageItems \cup FunctionCallItems \cup FunctionCallOutputItems
        \cup ReasoningItems

Items == KnownItems \cup UnrecognizedItems

ItemLists == UNION { [1..n -> Items] : n \in 0..MaxItems }

\* body.input: absent, an empty or non-empty string, or a list of items
Inputs == {Undefined, Str(""), Str("hi")} \cup { Arr(l) : l \in ItemLists }

Instructions == {Undefined, Str(""), Str("be terse")}

FlatTool ==
    [type |-> Str("function"), name |-> Str("f"), description |-> Str("d"),
     parameters |-> [obj |-> [type |-> "object"]]]

NestedTool ==
    [type |-> Str("function"),
     function |-> [obj |-> [name |-> Str("g"), parameters |-> [obj |-> [type |-> "object"]]]]]

FlatToolStrict ==
    [type |-> Str("function"), name |-> Str("h"), description |-> Str("e"),
     parameters |-> [obj |-> [type |-> "object"]], strict |-> [bool |-> TRUE]]

Tools ==
    {Undefined, Arr(<<FlatTool, NestedTool>>),
     Arr(<<NestedTool, FlatToolStrict, FlatTool>>)}

\* fields a body carries besides input, instructions and tools
Extras ==
    { [model |-> Str("gpt")],
      [model |-> Str("gpt"), include |-> Arr(<<>>), prompt_cache_key |-> Str("k"),
       store |-> [bool |-> FALSE], reasoning |-> [obj |-> [effort |-> "low"]],
       temperature |-> [num |-> 1]] }

\* an object literal: the fields whose value is not undefined are present
WithField(o, f, v) == IF v = Undefined THEN o ELSE Put(o, f, v)

Bodies ==
    { WithField(WithField(WithField(x, "tools", t), "instructions", ins), "input", inp) :
        x \in Extras, t \in Tools, ins \in Instructions, inp \in Inputs }

TInit ==
    /\ tBody \in Bodies
    /\ tOrig = tBody
    /\ tResult = Undefined
    /\ tSame = FALSE
    /\ tpc = "ready"

\* one call of the registered request transform on the caller's body
Translate ==
    /\ tpc = "ready"
    /\ LET out == openaiResponsesToOpenAIRequest(tBody)
       IN /\ tBody' = out.heap["b"]
          /\ tResult' = out.heap[out.ref]
          /\ tSame' = (out.ref = "b")
    /\ tpc' = "done"
    /\ UNCHANGED tOrig

TNext == Translate /\ UNCHANGED <<pvars, ovars, mvars, svars>>

(***************************************************************************)
(* Project ID service                                                      *)
(***************************************************************************)
CACHE_TTL_MS == 60 * 60 * 1000

MAX_ATTEMPTS == 5

ONBOARD_DELAY_MS == 2000

Conns == {"c1", "c2"}

\* the connectionId and accessToken arguments; "" stands for a missing one
ConnArgs == Conns \cup {""}

TokenArgs == {"tok", ""}

NoEntry == [none |-> TRUE]

\* String.prototype.trim on the strings the upstream responses carry
Trim(s) == IF s = " " THEN "" ELSE s

\* the two shapes of cloudaicompanionProject: a string, or an object with id
ProjectIdOf(project) ==
    IF IsString(project) /\ Trim(project.str) # ""
        THEN Str(Trim(project.str))
    ELSE IF "obj" \in DOMAIN project
            /\ IsString(Get(project.obj, "id"))
            /\ Trim(Get(project.obj, "id").str) # ""
        THEN Str(Trim(Get(project.obj, "id").str))
    ELSE Null

extractProjectId(data) ==
    IF ~Truthy(data) THEN Null
    ELSE ProjectIdOf(Get(data, "cloudaicompanionProject"))

extractProjectIdFromOnboard(data) ==
    IF ~Truthy(Get(data, "response")) THEN Null
    ELSE ProjectIdOf(Get(Get(data, "response").obj, "cloudaicompanionProject"))

\* what the loadCodeAssist request can come back with: a rejected fetch, a
\* non-2xx status, or a JSON body with or without a project
LoadCodeAssistResponses ==
    { [failed |-> "TypeError"],
      [ok |-> FALSE, status |-> 403],
      [ok |-> TRUE, data |-> [cloudaicompanionProject |-> Str("p1")]],
      [ok |-> TRUE, data |-> [cloudaicompanionProject |-> [obj |-> [id |-> Str("p2")]]]],
      [ok |-> TRUE, data |-> [cloudaicompanionProject |-> Str(" ")]],
      [ok |-> TRUE, data |-> [currentTier |-> Str("free-tier")]] }

\* what one onboardUser request can come back with; "AbortError" is the
\* 30 s abort timer firing
OnboardUserResponses ==
    { [failed |-> "AbortError"],
      [failed |-> "TypeError"],
      [ok |-> FALSE, status |-> 500],
      [ok |-> TRUE, data |-> [done |-> FALSE]],
      [ok |-> TRUE, data |-> [done |-> TRUE,
            response |-> [obj |-> [cloudaicompanionProject |-> Str("p1")]]]],
      [ok |-> TRUE, data |-> [done |-> TRUE,
            response |-> [obj |-> [cloudaicompanionProject |->
                                     [obj |-> [id |-> Str("p2")]]]]]],
      [ok |-> TRUE, data |-> [done |-> TRUE]] }

\* mutant: an entry aged exactly the TTL still counts as fresh
IsFreshInclusive(cached, t) ==
    cached # NoEntry /\ (t - cached.fetchedAt) <= CACHE_TTL_MS

\* cached && (Date.now() - cached.fetchedAt) < CACHE_TTL_MS
IsFresh(cached, t) ==
    cached # NoEntry /\ (t - cached.fetchedAt) < CACHE_TTL_MS

\* mutant: the registry is not consulted
HasPendingNever(pending, c) == FALSE

\* pendingFetches.has(connectionId)
HasPending(pending, c) == pending[c] # 0

\* fetchProjectId up to the end of the loadCodeAssist exchange: it throws,
\* returns a project ID, or goes on to onboardUser
LoadCodeAssistOutcome(resp) ==
    IF "failed" \in DOMAIN resp THEN [kind |-> "throw"]
    ELSE IF ~resp.ok THEN [kind |-> "throw"]
    ELSE IF Truthy(extractProjectId(resp.data))
        THEN [kind |-> "return", value |-> extractProjectId(resp.data)]
    ELSE [kind |-> "onboard"]

\* the delay after a not-done response
SleepDelay(attempt) == ONBOARD_DELAY_MS

\* the try block of one onboardUser attempt
TryBlock(attempt, resp) ==
    IF "failed" \in DOMAIN resp THEN [kind |-> "raise", name |-> resp.failed]
    ELSE IF ~resp.ok THEN [kind |-> "raise", name |-> "Error"]
    ELSE IF resp.data.done = TRUE
        THEN (IF Truthy(extractProjectIdFromOnboard(resp.data))
              THEN [kind |-> "return",
                    value |-> extractProjectIdFromOnboard(resp.data)]
              ELSE [kind |-> "raise", name |-> "Error"])
    ELSE [kind |-> "sleep", ms |-> SleepDelay(attempt)]

\* mutant: every failure before the last attempt is retried
CatchBlockRetryAll(attempt, name) ==
    IF attempt = MAX_ATTEMPTS THEN [kind |-> "return", value |-> Null]
    ELSE [kind |-> "continue"]

\* the catch block of one onboardUser attempt
CatchBlock(attempt, name) ==
    IF attempt = MAX_ATTEMPTS THEN [kind |-> "return", value |-> Null]
    ELSE IF name = "AbortError" THEN [kind |-> "continue"]
    ELSE [kind |-> "throw"]

\* one iteration of the polling loop, up to its sleep
OnboardIteration(attempt, resp) ==
    LET t == TryBlock(attempt, resp)
    IN IF t.kind = "raise" THEN CatchBlock(attempt, t.name) ELSE t

\* mutant: the loop runs one attempt too many
LoopContinuesOffByOne(attempt) == attempt <= MAX_ATTEMPTS + 1

\* attempt <= MAX_ATTEMPTS
LoopContinues(attempt) == attempt <= MAX_ATTEMPTS

\* mutant: no catch, an exception of fetchProjectId rejects the promise
AsyncBodyNoCatch(outcome) ==
    IF outcome.kind = "throw" THEN [state |-> "rejected", value |-> Null]
    ELSE IF Truthy(outcome.value) THEN [state |-> "fulfilled", value |-> outcome.value]
    ELSE [state |-> "fulfilled", value |-> Null]

\* the async wrapper around fetchProjectId: its try, catch and both returns.
\* With no project ID, line 54 may itself raise (log is not declared in the
\* file); the catch then returns null as well.
AsyncBody(outcome) ==
    IF outcome.kind = "throw" THEN [state |-> "fulfilled", value |-> Null]
    ELSE IF Truthy(outcome.value) THEN [state |-> "fulfilled", value |-> outcome.value]
    ELSE [state |-> "fulfilled", value |-> Null]

\* if (projectId) projectIdCache.set(connectionId, {projectId, fetchedAt})
CacheSet(cache, c, outcome, t) ==
    IF outcome.kind = "return" /\ Truthy(outcome.value)
    THEN [cache EXCEPT ![c] = [projectId |-> outcome.value, fetchedAt |-> t]]
    ELSE cache

\* mutant: the registry entry is left behind
FinallyKeep(pending, c) == pending

\* finally { pendingFetches.delete(connectionId) }
FinallyDelete(pending, c) == [pending EXCEPT ![c] = 0]

Without(f, k) == [g \in (DOMAIN f) \ {k} |-> f[g]]

\* fetchProjectId has returned or thrown: the wrapper's continuation runs to
\* its end in one turn and the promise settles
Settle(f, via, outcome) ==
    LET c == fetches[f].conn
        r == AsyncBody(outcome)
    IN /\ projectIdCache' = CacheSet(projectIdCache, c, outcome, now)
       /\ pendingFetches' = FinallyDelete(pendingFetches, c)
       /\ fetches' = Without(fetches, f)
       /\ ev' = [op |-> "settle", conn |-> c, via |-> via,
                 outcome |-> outcome, state |-> r.state, value |-> r.value,
                 exhausted |-> fetches[f].requests = MAX_ATTEMPTS]
       /\ UNCHANGED <<nextFid, now, ticks>>

\* the loop's increment and test, then the next request or the final return
NextAttempt(f) ==
    IF LoopContinues(fetches[f].attempt + 1)
    THEN /\ fetches' = [fetches EXCEPT ![f] =
                [@ EXCEPT !.pc = "onboardUser", !.attempt = @ + 1,
                          !.requests = @ + 1, !.timer = 0]]
         /\ UNCHANGED <<projectIdCache, pendingFetches, nextFid, now, ticks, ev>>
    ELSE Settle(f, "onboardUser", [kind |-> "return", value |-> Null])

\* export async function getProjectIdForConnection(connectionId, accessToken),
\* up to its return: the promise it hands back, and the fetch it started
GetProjectIdForConnection(c, t) ==
    /\ UNCHANGED <<tvars, ovars, mvars, svars>>
    /\ IF c = "" \/ t = ""
       THEN /\ ev' = [op |-> "call", conn |-> c, ret |-> Null,
                      upstream |-> FALSE]
            /\ UNCHANGED <<projectIdCache, pendingFetches, fetches, nextFid, now, ticks>>
       ELSE IF IsFresh(projectIdCache[c], now)
       THEN /\ ev' = [op |-> "call", conn |-> c,
                      ret |-> projectIdCache[c].projectId, upstream |-> FALSE]
            /\ UNCHANGED <<projectIdCache, pendingFetches, fetches, nextFid, now, ticks>>
       ELSE IF HasPending(pendingFetches, c)
       THEN /\ ev' = [op |-> "call", conn |-> c,
                      ret |-> [promise |-> pendingFetches[c]], upstream |-> FALSE]
            /\ UNCHANGED <<projectIdCache, pendingFetches, fetches, nextFid, now, ticks>>
       ELSE /\ nextFid < MaxFetches
            /\ nextFid' = nextFid + 1
            /\ fetches' = ((nextFid + 1) :>
                             [conn |-> c, pc |-> "loadCodeAssist", attempt |-> 0,
                              requests |-> 0, timer |-> 0]) @@ fetches
            /\ pendingFetches' = [pendingFetches EXCEPT ![c] = nextFid + 1]
            /\ ev' = [op |-> "call", conn |-> c,
                      ret |-> [promise |-> nextFid + 1], upstream |-> TRUE]
            /\ UNCHANGED <<projectIdCache, now, ticks>>

\* export function invalidateProjectId(connectionId)
InvalidateProjectId(c) ==
    /\ projectIdCache' = [projectIdCache EXCEPT ![c] = NoEntry]
    /\ ev' = [op |-> "invalidate", conn |-> c]
    /\ UNCHANGED <<pendingFetches, fetches, nextFid, now, ticks>>
    /\ UNCHANGED <<tvars, ovars, mvars, svars>>

\* the loadCodeAssist request of fetch f comes back
LoadCodeAssistResponse(f, resp) ==
    /\ f \in DOMAIN fetches
    /\ fetches[f].pc = "loadCodeAssist"
    /\ UNCHANGED <<tvars, ovars, mvars, svars>>
    /\ LET o == LoadCodeAssistOutcome(resp)
       IN IF o.kind = "onboard"
          THEN /\ fetches' = [fetches EXCEPT ![f] =
                     [@ EXCEPT !.pc = "onboardUser", !.attempt = 1, !.requests = 1]]
               /\ UNCHANGED <<projectIdCache, pendingFetches, nextFid, now, ticks, ev>>
          ELSE Settle(f, "loadCodeAssist", o)

\* the onboardUser request of the current attempt of fetch f comes back, or
\* its abort timer fires
OnboardUserResponse(f, resp) ==
    /\ f \in DOMAIN fetches
    /\ fetches[f].pc = "onboardUser"
    /\ UNCHANGED <<tvars, ovars, mvars, svars>>
    /\ LET it == OnboardIteration(fetches[f].attempt, resp)
       IN IF it.kind = "sleep"
          THEN /\ fetches' = [fetches EXCEPT ![f] =
                     [@ EXCEPT !.pc = "sleep", !.timer = it.ms]]
               /\ UNCHANGED <<projectIdCache, pendingFetches, nextFid, now, ticks, ev>>
          ELSE IF it.kind = "continue" THEN NextAttempt(f)
          ELSE Settle(f, "onboardUser", it)

\* the delay after a not-done response is over
OnboardUserWake(f) ==
    /\ f \in DOMAIN fetches
    /\ fetches[f].pc = "sleep"
    /\ UNCHANGED <<tvars, ovars, mvars, svars>>
    /\ NextAttempt(f)

TickSteps == {1, CACHE_TTL_MS - 1}

\* time passes
Tick ==
    /\ ticks < MaxTicks
    /\ \E d \in TickSteps : now' = now + d
    /\ ticks' = ticks + 1
    /\ UNCHANGED <<projectIdCache, pendingFetches, fetches, nextFid, ev>>
    /\ UNCHANGED <<tvars, ovars, mvars, svars>>

Fids == 1..MaxFetches

\* the next step of fetch f: a response, an abort, or the end of a delay
FetchStep(f) ==
    \/ \E resp \in LoadCodeAssistResponses : LoadCodeAssistResponse(f, resp)
    \/ \E resp \in OnboardUserResponses : OnboardUserResponse(f, resp)
    \/ OnboardUserWake(f)

\* the module as loaded: empty cache, empty registry, nothing in flight
PInit ==
    /\ projectIdCache = [c \in Conns |-> NoEntry]
    /\ pendingFetches = [c \in Conns |-> 0]
    /\ fetches = <<>>
    /\ nextFid = 0
    /\ now = 0
    /\ ticks = 0
    /\ ev = [op |-> "none"]

\* the translator is not in use
TIdle ==
    /\ tBody = [model |-> Str("gpt")]
    /\ tOrig = tBody
    /\ tResult = Undefined
    /\ tSame = FALSE
    /\ tpc = "idle"

PNext ==
    \/ \E c \in ConnArgs, t \in TokenArgs : GetProjectIdForConnection(c, t)
    \/ \E c \in Conns : InvalidateProjectId(c)
    \/ \E f \in Fids, resp \in LoadCodeAssistResponses : LoadCodeAssistResponse(f, resp)
    \/ \E f \in Fids, resp \in OnboardUserResponses : OnboardUserResponse(f, resp)
    \/ \E f \in Fids : OnboardUserWake(f)
    \/ Tick

(***************************************************************************)
(* Fallback orchestrator: the state machine of one client request          *)
(***************************************************************************)
MaxModels == 2

MaxAccounts == 2

\* more Executor invocations than a request can make: at most three per
\* candidate (the first, one after a refresh, one immediate retry)
AttemptCap == 3 * MaxModels * MaxAccounts + 1

\* a combo of N models with M accounts each
Combos == [models : 1..MaxModels, accounts : 1..MaxAccounts]

Candidates == (1..MaxModels) \X (1..MaxAccounts)

\* what the Executor is observed to end with, besides success
Failures ==
    {"401", "403", "5xx", "timeout", "quota", "model_not_found", "unrecognized"}

\* CLASSIFY_FAILURE: the AttemptOutcome of a failure; any other failure is
\* fatal-for-model
Classify(f) ==
    IF f \in {"401", "403"} THEN "retryable-auth"
    ELSE IF f \in {"5xx", "timeout"} THEN "retryable-transient"
    ELSE IF f = "quota" THEN "fatal-for-account"
    ELSE IF f = "model_not_found" THEN "fatal-for-model"
    ELSE "fatal-for-model"

Fatal == {"fatal-for-account", "fatal-for-model"}

\* mutant: a refresh is granted on every auth failure
MayRefreshAlways(n) == TRUE

\* REFRESH_AND_RETRY_SAME_ACCOUNT is triggered once per account per request
MayRefresh(n) == n = 0

\* ROTATE_ACCOUNT after at most one immediate same-account retry
MayRetry(n) == n = 0

\* mutant: a model-fatal failure only rotates to the next account
AfterModelFatalRotate == "ROTATE_ACCOUNT"

\* on fatal-for-model the model is left
AfterModelFatal == "ADVANCE_COMBO"

\* mutant: the account that failed is selected again
NextAccountSame(cand) == cand

\* the next account for the same model
NextAccount(cand) == <<cand[1], cand[2] + 1>>

\* the next model entry, from its first account
NextModel(cand) == <<cand[1] + 1, 1>>

\* the candidates of model m that the chain holds
AccountsOf(m) == { c \in Candidates : c[1] = m /\ c[2] <= combo.accounts }

OFrame == UNCHANGED <<tvars, pvars, mvars, svars>>

\* SELECT_CANDIDATE: the next candidate of the chain, or none
SelectCandidate ==
    /\ ostate = "SELECT_CANDIDATE"
    /\ ostate' = IF candidate[1] > combo.models THEN "ABORT"
                 ELSE IF candidate[2] > combo.accounts THEN "ADVANCE_COMBO"
                 ELSE "EXECUTE"
    /\ UNCHANGED <<combo, candidate, failure, attemptOutcome, refreshCalls,
                   retries, attempts, allFatal, fatalModels, left>>
    /\ OFrame

\* EXECUTE: one Executor invocation with the chosen account, and what it
\* is observed to end with
Execute(result) ==
    /\ ostate = "EXECUTE"
    /\ attempts < AttemptCap
    /\ attempts' = attempts + 1
    /\ failure' = result
    /\ IF result = "ok"
       THEN /\ ostate' = "SUCCESS"
            /\ attemptOutcome' = "succeeded"
            /\ allFatal' = FALSE
       ELSE /\ ostate' = "CLASSIFY_FAILURE"
            /\ attemptOutcome' = Classify(result)
            /\ allFatal' = (allFatal /\ Classify(result) \in Fatal)
    /\ UNCHANGED <<combo, candidate, refreshCalls, retries, fatalModels, left>>
    /\ OFrame

\* CLASSIFY_FAILURE: the next control-loop decision
ClassifyFailure ==
    /\ ostate = "CLASSIFY_FAILURE"
    /\ IF attemptOutcome = "retryable-auth"
       THEN IF MayRefresh(refreshCalls)
            THEN /\ ostate' = "REFRESH_AND_RETRY_SAME_ACCOUNT"
                 /\ UNCHANGED <<attemptOutcome, retries, fatalModels>>
            ELSE /\ attemptOutcome' = "fatal-for-account"
                 /\ ostate' = "ROTATE_ACCOUNT"
                 /\ UNCHANGED <<retries, fatalModels>>
       ELSE IF attemptOutcome = "retryable-transient"
       THEN IF MayRetry(retries)
            THEN /\ retries' = retries + 1
                 /\ ostate' = "EXECUTE"
                 /\ UNCHANGED <<attemptOutcome, fatalModels>>
            ELSE /\ ostate' = "ROTATE_ACCOUNT"
                 /\ UNCHANGED <<attemptOutcome, retries, fatalModels>>
       ELSE IF attemptOutcome = "fatal-for-account"
       THEN /\ ostate' = "ROTATE_ACCOUNT"
            /\ UNCHANGED <<attemptOutcome, retries, fatalModels>>
       ELSE /\ ostate' = AfterModelFatal
            /\ fatalModels' = fatalModels \cup {candidate[1]}
            /\ UNCHANGED <<attemptOutcome, retries>>
    /\ UNCHANGED <<combo, candidate, failure, refreshCalls, attempts, allFatal,
                   left>>
    /\ OFrame

\* REFRESH_AND_RETRY_SAME_ACCOUNT: refreshCredential(account), whether it
\* succeeds or fails, then EXECUTE with the same account
RefreshAndRetrySameAccount ==
    /\ ostate = "REFRESH_AND_RETRY_SAME_ACCOUNT"
    /\ refreshCalls' = refreshCalls + 1
    /\ ostate' = "EXECUTE"
    /\ UNCHANGED <<combo, candidate, failure, attemptOutcome, retries,
                   attempts, allFatal, fatalModels, left>>
    /\ OFrame

\* ROTATE_ACCOUNT: the next account for the same model, with its own refresh
\* and retry allowance
RotateAccount ==
    /\ ostate = "ROTATE_ACCOUNT"
    /\ candidate' = NextAccount(candidate)
    /\ left' = left \cup {candidate}
    /\ refreshCalls' = 0
    /\ retries' = 0
    /\ ostate' = "SELECT_CANDIDATE"
    /\ UNCHANGED <<combo, failure, attemptOutcome, attempts, allFatal,
                   fatalModels>>
    /\ OFrame

\* ADVANCE_COMBO: the next model entry of the combo chain; the accounts of
\* the model that is left are not tried
AdvanceCombo ==
    /\ ostate = "ADVANCE_COMBO"
    /\ candidate' = NextModel(candidate)
    /\ left' = left \cup AccountsOf(candidate[1])
    /\ refreshCalls' = 0
    /\ retries' = 0
    /\ ostate' = "SELECT_CANDIDATE"
    /\ UNCHANGED <<combo, failure, attemptOutcome, attempts, allFatal,
                   fatalModels>>
    /\ OFrame

\* a request enters the state machine with its resolved chain
OInit ==
    /\ combo \in Combos
    /\ ostate = "SELECT_CANDIDATE"
    /\ candidate = <<1, 1>>
    /\ failure = "none"
    /\ attemptOutcome = "none"
    /\ refreshCalls = 0
    /\ retries = 0
    /\ attempts = 0
    /\ allFatal = TRUE
    /\ fatalModels = {}
    /\ left = {}

\* no request is being orchestrated
OIdle ==
    /\ combo = [models |-> 1, accounts |-> 1]
    /\ ostate = "idle"
    /\ candidate = <<1, 1>>
    /\ failure = "none"
    /\ attemptOutcome = "none"
    /\ refreshCalls = 0
    /\ retries = 0
    /\ attempts = 0
    /\ allFatal = TRUE
    /\ fatalModels = {}
    /\ left = {}

ONext ==
    \/ SelectCandidate
    \/ \E result \in {"ok"} \cup Failures : Execute(result)
    \/ ClassifyFailure
    \/ RefreshAndRetrySameAccount
    \/ RotateAccount
    \/ AdvanceCombo

(***************************************************************************)
(* Machine ID                                                              *)
(***************************************************************************)
MaxRuns == 2

\* crypto.createHash("sha256").update(parts joined).digest("hex"): a digest
\* is determined by its input, and different inputs give different digests
Sha256Hex(parts) == [sha256 |-> parts]

\* hashedMachineId.substring(0, 16)
Substring16(digest) == [first16 |-> digest]

\* the salt argument of a call; "" stands for the default null
SaltArgs == {"", "s1", "s2"}

\* the machine and environment: whether machineIdSync works on it, and
\* process.env.MACHINE_ID_SALT ("" when unset)
Envs == [sync : {"ok", "throws"}, MACHINE_ID_SALT : {"", "envsalt"}]

\* salt || process.env.MACHINE_ID_SALT || "endpoint-proxy-salt"
SaltValue(salt, e) ==
    IF salt # "" THEN salt
    ELSE IF e.MACHINE_ID_SALT # "" THEN e.MACHINE_ID_SALT
    ELSE "endpoint-proxy-salt"

\* sha256 of `${host}:${user}:${saltValue}`, saltValue given by its parts
buildStableFallbackId(saltParts) ==
    Sha256Hex(<<Str("host"), Str(":"), Str("user"), Str(":")>> \o saltParts)

\* the value getRawMachineIdWithFallback returns, which is also the value of
\* cachedRawMachineId after the call
getRawMachineIdWithFallback(cached, saltValue, e) ==
    IF cached # Null THEN cached
    ELSE IF e.sync = "ok" THEN Str("machine-guid")
    ELSE buildStableFallbackId(<<Str("raw:"), Str(saltValue)>>)

\* machineIdErrorLogged after a call of getRawMachineIdWithFallback
ErrorLogged(logged, cached, e) ==
    logged \/ (cached = Null /\ e.sync = "throws")

MFrame == UNCHANGED <<tvars, pvars, ovars, svars>>

\* export async function getConsistentMachineId(salt = null)
getConsistentMachineId(salt) ==
    LET saltValue == SaltValue(salt, env)
        rawMachineId ==
            getRawMachineIdWithFallback(cachedRawMachineId, saltValue, env)
        hashedMachineId == Sha256Hex(<<rawMachineId, Str(saltValue)>>)
    IN /\ cachedRawMachineId' = rawMachineId
       /\ machineIdErrorLogged' =
            ErrorLogged(machineIdErrorLogged, cachedRawMachineId, env)
       /\ ids' = [ids EXCEPT ![salt] = @ \cup {Substring16(hashedMachineId)}]
       /\ UNCHANGED <<env, runs>>
       /\ MFrame

\* export async function getRawMachineId()
getRawMachineId ==
    LET saltValue == SaltValue("", env)
    IN /\ cachedRawMachineId' =
            getRawMachineIdWithFallback(cachedRawMachineId, saltValue, env)
       /\ machineIdErrorLogged' =
            ErrorLogged(machineIdErrorLogged, cachedRawMachineId, env)
       /\ UNCHANGED <<env, ids, runs>>
       /\ MFrame

\* the process ends and another run starts on the same machine and
\* environment: the module variables are initialised again
NewRun ==
    /\ runs < MaxRuns
    /\ runs' = runs + 1
    /\ cachedRawMachineId' = Null
    /\ machineIdErrorLogged' = FALSE
    /\ UNCHANGED <<env, ids>>
    /\ MFrame

MInit ==
    /\ env \in Envs
    /\ cachedRawMachineId = Null
    /\ machineIdErrorLogged = FALSE
    /\ ids = [s \in SaltArgs |-> {}]
    /\ runs = 1

\* the machine ID module is not in use
MIdle ==
    /\ env = [sync |-> "ok", MACHINE_ID_SALT |-> ""]
    /\ cachedRawMachineId = Null
    /\ machineIdErrorLogged = FALSE
    /\ ids = [s \in SaltArgs |-> {}]
    /\ runs = 1

MNext ==
    \/ \E salt \in SaltArgs : getConsistentMachineId(salt)
    \/ getRawMachineId
    \/ NewRun

(***************************************************************************)
(* Cloud sync initialization                                               *)
(***************************************************************************)
MaxCalls == 4

\* the state of a call that is waiting for initializeCloudSync()
Awaiting == [pc |-> "await", invoked |-> TRUE]

\* a call whose promise is fulfilled with ret; the function has no path that
\* rejects it
Returned(invoked, threw, ret) ==
    [pc |-> "done", invoked |-> invoked, threw |-> threw, ret |-> ret]

SFrame == UNCHANGED <<tvars, pvars, ovars, mvars>>

\* export async function ensureCloudSyncInitialized(), up to its first await
\* or, when initialized is set, to its return
ensureCloudSyncInitialized ==
    LET k == Cardinality(DOMAIN syncCalls) + 1
    IN /\ k <= MaxCalls
       /\ syncCalls' = (k :> (IF ~initialized THEN Awaiting
                          ELSE Returned(FALSE, FALSE, initialized))) @@ syncCalls
       /\ UNCHANGED initialized
       /\ SFrame

\* await initializeCloudSync() of call k resolves: initialized = true, then
\* return initialized
InitializeCloudSyncResolves(k) ==
    /\ k \in DOMAIN syncCalls
    /\ syncCalls[k].pc = "await"
    /\ initialized' = TRUE
    /\ syncCalls' = [syncCalls EXCEPT ![k] = Returned(TRUE, FALSE, initialized')]
    /\ SFrame

\* await initializeCloudSync() of call k throws: the catch block logs, then
\* return initialized
InitializeCloudSyncThrows(k) ==
    /\ k \in DOMAIN syncCalls
    /\ syncCalls[k].pc = "await"
    /\ syncCalls' = [syncCalls EXCEPT ![k] = Returned(TRUE, TRUE, initialized)]
    /\ UNCHANGED initialized
    /\ SFrame

\* the module has been loaded: outside the build phase the automatic call is
\* already waiting for initializeCloudSync()
SInit ==
    /\ initialized = FALSE
    /\ \E isNextBuildPhase \in BOOLEAN :
          syncCalls = IF isNextBuildPhase THEN <<>> ELSE (1 :> Awaiting)

\* the module is not loaded
SIdle ==
    /\ initialized = FALSE
    /\ syncCalls = <<>>

SNext ==
    \/ ensureCloudSyncInitialized
    \/ \E k \in 1..MaxCalls : InitializeCloudSyncResolves(k)
    \/ \E k \in 1..MaxCalls : InitializeCloudSyncThrows(k)

(***************************************************************************)
(* Specifications                                                          *)
(***************************************************************************)
Init == TInit /\ PInit /\ OIdle /\ MIdle /\ SIdle

Next == TNext

InitProjectId == PInit /\ TIdle /\ OIdle /\ MIdle /\ SIdle

InitFallback == OInit /\ TIdle /\ PInit /\ MIdle /\ SIdle

InitMachineId == MInit /\ TIdle /\ PInit /\ OIdle /\ SIdle

InitCloudSync == SInit /\ TIdle /\ PInit /\ OIdle /\ MIdle

\* the request translator applied to each body of Bodies
Spec == Init /\ [][Next]_vars

\* the project ID service under any interleaving of callers, invalidations,
\* responses and clock advances
SpecProjectId == InitProjectId /\ [][PNext]_vars

\* one client request through the fallback orchestrator; the Executor and the
\* refresh call are bounded by their timeouts, so the request keeps moving
SpecFallback == InitFallback /\ [][ONext]_vars /\ WF_vars(ONext)

\* runs of a process using the machine ID module on one machine
SpecMachineId == InitMachineId /\ [][MNext]_vars

\* callers of ensureCloudSyncInitialized after the module has been loaded
SpecCloudSync == InitCloudSync /\ [][SNext]_vars

\* one connection's callers and the polling their fetches do
OnboardNext ==
    \/ GetProjectIdForConnection("c1", "tok")
    \/ \E f \in Fids, resp \in LoadCodeAssistResponses : LoadCodeAssistResponse(f, resp)
    \/ \E f \in Fids, resp \in OnboardUserResponses : OnboardUserResponse(f, resp)
    \/ \E f \in Fids : OnboardUserWake(f)
    \/ Tick

\* every request comes back or is aborted by its 30 s timer, and every
\* 2000 ms delay ends: each fetch in flight keeps taking its next step
SpecOnboardUser ==
    InitProjectId /\ [][OnboardNext]_vars /\ \A f \in Fids : WF_vars(FetchStep(f))

(***************************************************************************)
(* Properties of the translator                                            *)
(***************************************************************************)
OrigInput == Get(tOrig, "input")

OrigInstructions == Get(tOrig, "instructions")

\* the call went past the early return and built a result
Transformed == tpc = "done" /\ Truthy(OrigInput)

InputIsList == IsArray(OrigInput)

ResultMessages == Get(tResult, "messages").arr

HasSystem == Truthy(OrigInstructions)

\* the output messages after the synthesized system message
InputMessages ==
    SubSeq(ResultMessages, (IF HasSystem THEN 2 ELSE 1), Len(ResultMessages))

IsToolCallCarrier(m) == "tool_calls" \in DOMAIN m

\* a message list with every assistant tool-call message replaced by its calls
RECURSIVE Flatten(_)
Flatten(msgs) ==
    IF msgs = <<>> THEN <<>>
    ELSE (IF IsToolCallCarrier(Head(msgs)) THEN Head(msgs).tool_calls
          ELSE <<Head(msgs)>>) \o Flatten(Tail(msgs))

IsReasoning(item) == ItemType(item) = "reasoning"

IsNotReasoning(item) == ~IsReasoning(item)

RecognizedTypes == {"message", "function_call", "function_call_output", "reasoning"}

AllRecognized(items) == \A i \in 1..Len(items) : ItemType(items[i]) \in RecognizedTypes

\* output entry e is the image of input item it
Derives(e, it) ==
    IF ItemType(it) = "message"
        THEN /\ DOMAIN e = {"role", "content"}
             /\ e.role = it.role
             /\ IsArray(e.content) = IsArray(it.content)
             /\ IsArray(e.content) => Len(e.content.arr) = Len(it.content.arr)
    ELSE IF ItemType(it) = "function_call"
        THEN /\ "id" \in DOMAIN e
             /\ e.id = it.call_id
             /\ e.function.name = it.name
    ELSE IF ItemType(it) = "function_call_output"
        THEN /\ "tool_call_id" \in DOMAIN e
             /\ e.role = "tool"
             /\ e.tool_call_id = it.call_id
    ELSE FALSE

\* C1: for an input list of message, function_call, function_call_output and
\* reasoning items, the output messages (after the system message), with each
\* assistant tool-call message expanded into its tool calls, are exactly the
\* images of the non-reasoning items, one for one and in input order; nothing
\* in the output comes from a reasoning item.
C1_OrderPreserved ==
    (Transformed /\ InputIsList /\ AllRecognized(OrigInput.arr)) =>
        LET kept == SelectSeq(OrigInput.arr, IsNotReasoning)
            flat == Flatten(InputMessages)
        IN /\ Len(flat) = Len(kept)
           /\ \A i \in 1..Len(kept) : Derives(flat[i], kept[i])

\* a list that interleaves a tool call, a reasoning item and a message
C1_Witness ==
    /\ Transformed /\ InputIsList /\ AllRecognized(OrigInput.arr)
    /\ Len(OrigInput.arr) = 3
    /\ ItemType(OrigInput.arr[1]) = "function_call"
    /\ ItemType(OrigInput.arr[2]) = "reasoning"
    /\ ItemType(OrigInput.arr[3]) = "message"
    /\ Len(InputMessages) = 2

\* the loop state of the call after its first n input items
LoopState(n) == Fold(LoopStart(tOrig), OrigInput.arr, n)

IsPrefix(p, q) == Len(p) <= Len(q) /\ SubSeq(q, 1, Len(p)) = p

\* C2: each function_call_output item is emitted, when it is processed, as a
\* tool-role message carrying its call_id, and nothing stays buffered; an
\* assistant message in progress is emitted directly before it; this also
\* holds for an output whose call_id matches no earlier function_call.
C2_OutputEmittedAtOnce ==
    (Transformed /\ InputIsList) =>
        \A i \in 1..Len(OrigInput.arr) :
            ItemType(OrigInput.arr[i]) = "function_call_output" =>
                LET pre  == LoopState(i - 1)
                    post == LoopState(i)
                    n    == Len(post.messages)
                IN /\ n >= 1
                   /\ DOMAIN post.messages[n] = {"role", "tool_call_id", "content"}
                   /\ post.messages[n].role = "tool"
                   /\ post.messages[n].tool_call_id = OrigInput.arr[i].call_id
                   /\ post.pendingToolResults = <<>>
                   /\ post.currentAssistantMsg = Null
                   /\ pre.currentAssistantMsg # Null =>
                        /\ n = Len(pre.messages) + 2
                        /\ post.messages[n - 1] = pre.currentAssistantMsg
                   /\ pre.currentAssistantMsg = Null => n = Len(pre.messages) + 1
                   /\ IsPrefix(post.messages, ResultMessages)

\* a dangling output, then a call followed at once by its output
C2_Witness ==
    /\ Transformed /\ InputIsList /\ ~HasSystem
    /\ Len(OrigInput.arr) = 3
    /\ ItemType(OrigInput.arr[1]) = "function_call_output"
    /\ OrigInput.arr[1].call_id = "call_2"
    /\ ItemType(OrigInput.arr[2]) = "function_call"
    /\ OrigInput.arr[2].call_id = "call_1"
    /\ ItemType(OrigInput.arr[3]) = "function_call_output"
    /\ OrigInput.arr[3].call_id = "call_1"
    /\ Len(ResultMessages) = 3
    /\ ResultMessages[1].role = "tool"
    /\ IsToolCallCarrier(ResultMessages[2])
    /\ ResultMessages[3].role = "tool"

SystemMessage == [role |-> "system", content |-> OrigInstructions]

\* C8: for a list input with non-empty instructions the first message is the
\* system message and every later message comes from an input item; for the
\* empty list the messages are that system message alone, or none at all
\* when there are no instructions.
C8_InstructionsFirst ==
    (tpc = "done" /\ InputIsList) =>
        /\ HasSystem =>
             /\ Len(ResultMessages) >= 1
             /\ ResultMessages[1] = SystemMessage
             /\ LET rest == Flatten(Tail(ResultMessages))
                IN \A i \in 1..Len(rest) :
                     \E j \in 1..Len(OrigInput.arr) : Derives(rest[i], OrigInput.arr[j])
        /\ OrigInput.arr = <<>> =>
             ResultMessages = (IF HasSystem THEN <<SystemMessage>> ELSE <<>>)

\* the scenario {instructions: "be terse", input: [user message "hi"]}
C8_Witness ==
    /\ tpc = "done" /\ InputIsList
    /\ OrigInstructions = Str("be terse")
    /\ OrigInput.arr = <<[type |-> "message", role |-> "user",
                          content |-> Arr(<<[type |-> "input_text", text |-> "hi"]>>)]>>
    /\ ResultMessages =
         <<[role |-> "system", content |-> Str("be terse")],
           [role |-> "user", content |-> Arr(<<[type |-> "text", text |-> "hi"]>>)]>>

SourceFields ==
    {"input", "instructions", "include", "prompt_cache_key", "store", "reasoning"}

\* C9 as claimed: whatever body is given, the returned body has none of the
\* fields input, instructions, include, prompt_cache_key, store, reasoning.
C9_NoSourceFieldsEver ==
    tpc = "done" => (DOMAIN tResult) \cap SourceFields = {}

\* C9 as amended: a body whose input is truthy is returned without any of the
\* six fields; a body whose input is absent or empty is returned as it is, the
\* same object with all its fields.
C9_NoSourceFieldsWhenInput ==
    tpc = "done" =>
        IF Truthy(OrigInput)
        THEN (DOMAIN tResult) \cap SourceFields = {}
        ELSE tSame /\ tResult = tOrig

\* a body carrying all six fields is stripped of them and keeps the others
C9_Witness ==
    /\ Transformed
    /\ SourceFields \subseteq DOMAIN tOrig
    /\ DOMAIN tResult = {"model", "temperature", "messages"}

\* C10: the call leaves the caller's body object, with its input list, items
\* and tool declarations, exactly as it was.
C10_InputNotMutated ==
    tpc = "done" => tBody = tOrig

\* a call that built a result different from the body it was given
C10_Witness ==
    /\ Transformed /\ ~tSame
    /\ SourceFields \subseteq DOMAIN tOrig
    /\ "tools" \in DOMAIN tOrig
    /\ tResult # tOrig
    /\ tBody = tOrig

\* the items that produce an output entry
Emits(item) == ItemType(item) \in {"message", "function_call", "function_call_output"}

IsTextPart(c) == ItemType(c) \in {"input_text", "output_text"}

\* output entry e carries the payload of input item it unchanged
Carries(e, it) ==
    IF ItemType(it) = "message"
        THEN /\ DOMAIN e = {"role", "content"}
             /\ e.role = it.role
             /\ IF IsArray(it.content)
                THEN /\ IsArray(e.content)
                     /\ Len(e.content.arr) = Len(it.content.arr)
                     /\ \A k \in 1..Len(it.content.arr) :
                          IF IsTextPart(it.content.arr[k])
                          THEN e.content.arr[k] =
                                 [type |-> "text", text |-> it.content.arr[k].text]
                          ELSE e.content.arr[k] = it.content.arr[k]
                ELSE e.content = it.content
    ELSE IF ItemType(it) = "function_call"
        THEN /\ DOMAIN e = {"id", "type", "function"}
             /\ e.id = it.call_id
             /\ e.type = "function"
             /\ e.function = [name |-> it.name, arguments |-> it.arguments]
    ELSE IF ItemType(it) = "function_call_output"
        THEN /\ DOMAIN e = {"role", "tool_call_id", "content"}
             /\ e.role = "tool"
             /\ e.tool_call_id = it.call_id
             /\ IsString(it.output) => e.content = it.output
    ELSE FALSE

\* C11: for every input list, the output messages (after the system message,
\* assistant messages expanded into their tool calls) are, one for one and in
\* order, the message, function_call and function_call_output items: a
\* message keeps its role and the text of each input_text/output_text part
\* (tagged text), a function_call becomes exactly one tool call with the same
\* id, name and arguments, a string output is the content of its tool message.
C11_PayloadsUnchanged ==
    (Transformed /\ InputIsList) =>
        LET kept == SelectSeq(OrigInput.arr, Emits)
            flat == Flatten(InputMessages)
        IN /\ Len(flat) = Len(kept)
           /\ \A i \in 1..Len(kept) : Carries(flat[i], kept[i])

\* a message with text parts, a tool call and a string tool output in one list
C11_Witness ==
    /\ Transformed /\ InputIsList
    /\ Len(OrigInput.arr) = 3
    /\ ItemType(OrigInput.arr[1]) = "message"
    /\ IsArray(OrigInput.arr[1].content)
    /\ OrigInput.arr[2] = [type |-> "function_call", call_id |-> "call_1",
                           name |-> "f", arguments |-> "{\"a\":1}"]
    /\ OrigInput.arr[3] = [type |-> "function_call_output", call_id |-> "call_1",
                           output |-> Str("42")]
    /\ Len(InputMessages) = 3
    /\ InputMessages[2].tool_calls[1].function.arguments = "{\"a\":1}"
    /\ InputMessages[3].content = Str("42")


OrigTools == Get(tOrig, "tools")

\* the nested declaration built from a flat one
Nested(tool) ==
    [type |-> Str("function"),
     function |-> [obj |-> [name        |-> Get(tool, "name"),
                            description |-> Get(tool, "description"),
                            parameters  |-> Get(tool, "parameters"),
                            strict      |-> Get(tool, "strict")]]]

\* C12 as claimed: whatever body is given, every entry of the tools list of
\* the returned body has a function field.
C12_ToolsNestedEver ==
    (tpc = "done" /\ IsArray(Get(tResult, "tools"))) =>
        \A i \in 1..Len(tResult.tools.arr) : "function" \in DOMAIN tResult.tools.arr[i]

\* C12 as amended: when body.input is truthy and body.tools is a list, the
\* output tools list has the same length, and entry i is declaration i itself
\* when that has a function field and otherwise {type: function, function:
\* {name, description, parameters, strict}} built from declaration i; a body
\* whose input is absent or empty is returned with its tools as they were.
C12_ToolsNestedWhenInput ==
    (tpc = "done" /\ IsArray(OrigTools)) =>
        IF Truthy(OrigInput)
        THEN /\ IsArray(Get(tResult, "tools"))
             /\ Len(tResult.tools.arr) = Len(OrigTools.arr)
             /\ \A i \in 1..Len(OrigTools.arr) :
                  /\ "function" \in DOMAIN tResult.tools.arr[i]
                  /\ tResult.tools.arr[i] =
                       (IF "function" \in DOMAIN OrigTools.arr[i]
                        THEN OrigTools.arr[i] ELSE Nested(OrigTools.arr[i]))
        ELSE Get(tResult, "tools") = OrigTools

\* a nested declaration followed by two flat ones, one of them strict
C12_Witness ==
    /\ Transformed
    /\ IsArray(OrigTools) /\ Len(OrigTools.arr) = 3
    /\ OrigTools.arr[1] = NestedTool
    /\ OrigTools.arr[2] = FlatToolStrict
    /\ tResult.tools.arr[1] = NestedTool
    /\ tResult.tools.arr[2].function.obj.name = Str("h")
    /\ tResult.tools.arr[2].function.obj.strict = [bool |-> TRUE]
    /\ tResult.tools.arr[3].function.obj.strict = Undefined


IsFunctionCall(item) == ItemType(item) = "function_call"

\* the number of maximal runs of function_call items in a list of items
RunStarts(items) ==
    Cardinality({ i \in 1..Len(items) :
        /\ IsFunctionCall(items[i])
        /\ (i = 1 \/ ~IsFunctionCall(items[i - 1])) })

Carriers(msgs) == { i \in 1..Len(msgs) : IsToolCallCarrier(msgs[i]) }

\* C18: with the reasoning (and unrecognized) items left out, every maximal
\* run of consecutive function_call items is one assistant message with
\* content null whose tool_calls are the run in input order: the output has
\* as many such messages as there are runs, never two of them side by side,
\* none of them empty, and one entry for each message or function_call_output
\* item, which is what separates the runs.
C18_CallsCoalesced ==
    (Transformed /\ InputIsList) =>
        LET kept  == SelectSeq(OrigInput.arr, Emits)
            calls == SelectSeq(kept, IsFunctionCall)
            out   == InputMessages
        IN /\ \A i \in Carriers(out) :
                /\ DOMAIN out[i] = {"role", "content", "tool_calls"}
                /\ out[i].role = "assistant"
                /\ out[i].content = Null
                /\ Len(out[i].tool_calls) >= 1
                /\ (i + 1) \notin Carriers(out)
           /\ Cardinality(Carriers(out)) = RunStarts(kept)
           /\ Len(out) = Len(kept) - Len(calls) + RunStarts(kept)
           /\ LET flat == Flatten(out)
              IN \A i \in 1..Len(kept) :
                    IsFunctionCall(kept[i]) <=> "id" \in DOMAIN flat[i]

\* two calls with a reasoning item between them end up in one message
C18_Witness ==
    /\ Transformed /\ InputIsList
    /\ Len(OrigInput.arr) = 3
    /\ OrigInput.arr[1].type = "function_call" /\ OrigInput.arr[1].call_id = "call_1"
    /\ OrigInput.arr[2].type = "reasoning"
    /\ OrigInput.arr[3].type = "function_call" /\ OrigInput.arr[3].call_id = "call_2"
    /\ Len(InputMessages) = 1
    /\ Len(InputMessages[1].tool_calls) = 2
    /\ InputMessages[1].tool_calls[1].id = "call_1"
    /\ InputMessages[1].tool_calls[2].id = "call_2"


IsRecognized(item) == ItemType(item) \in RecognizedTypes

\* the body with the items of unrecognized type taken out of its input list
WithoutUnrecognized(body) ==
    Put(body, "input", Arr(SelectSeq(body.input.arr, IsRecognized)))

\* the object a call on body returns
ResultOf(body) ==
    LET out == openaiResponsesToOpenAIRequest(body) IN out.heap[out.ref]

\* C19: an input item of a type other than message, function_call,
\* function_call_output and reasoning leaves a trace in the result: the body
\* returned for a list holding such an item differs from the body returned
\* for the same list without it.
C19_UnrecognizedReflected ==
    (Transformed /\ InputIsList /\ ~AllRecognized(OrigInput.arr)) =>
        tResult # ResultOf(WithoutUnrecognized(tOrig))


(***************************************************************************)
(* Properties of the project ID service                                    *)
(***************************************************************************)
\* the fetches in flight for connection c
InFlight(c) == {f \in DOMAIN fetches : fetches[f].conn = c}

\* this step is the settlement of fetch f
Settled(f) == f \in DOMAIN fetches /\ f \notin DOMAIN fetches'

\* this step is a settlement
Settles == \E f \in DOMAIN fetches : Settled(f)

IsPromise(ret) == "promise" \in DOMAIN ret

AtMostOneInFlight == \A c \in Conns : Cardinality(InFlight(c)) <= 1

\* C3: while a fetch for a connectionId is in flight, a further call for it
\* (with an access token) issues no upstream request and returns the promise
\* of that fetch, hence its value; at most one fetch per connectionId is in
\* flight at any time.
C3_Deduplicated ==
    [][ /\ AtMostOneInFlight'
        /\ \A c \in Conns :
             (InFlight(c) # {} /\ GetProjectIdForConnection(c, "tok")) =>
                 /\ ~ev'.upstream
                 /\ IsPromise(ev'.ret)
                 /\ InFlight(c) = {ev'.ret.promise}
                 /\ fetches' = fetches
                 /\ nextFid' = nextFid ]_vars

\* a caller has attached to the fetch in flight for its connection
C3_Witness ==
    /\ ev.op = "call"
    /\ ~ev.upstream
    /\ IsPromise(ev.ret)
    /\ ev.ret.promise \in DOMAIN fetches
    /\ fetches[ev.ret.promise].conn = ev.conn
    /\ fetches[ev.ret.promise].pc = "onboardUser"

RegistryMatchesFlight ==
    \A c \in Conns :
        IF pendingFetches[c] = 0 THEN InFlight(c) = {}
        ELSE InFlight(c) = {pendingFetches[c]}

\* C4: the registry entry of a connectionId goes when its fetch settles,
\* however it ended; the registry holds an entry exactly while a fetch is in
\* flight; a call that finds neither a fresh cache entry nor a fetch in
\* flight starts a new fetch.
C4_RegistryCleared ==
    [][ /\ RegistryMatchesFlight'
        /\ \A f \in DOMAIN fetches :
             Settled(f) => /\ ev'.op = "settle"
                           /\ ev'.conn = fetches[f].conn
                           /\ pendingFetches'[fetches[f].conn] = 0
        /\ \A c \in Conns :
             (/\ GetProjectIdForConnection(c, "tok")
              /\ pendingFetches[c] = 0
              /\ ~(projectIdCache[c] # NoEntry
                   /\ now - projectIdCache[c].fetchedAt < CACHE_TTL_MS)) =>
                 /\ ev'.upstream
                 /\ ev'.ret = [promise |-> nextFid']
                 /\ nextFid' = nextFid + 1
                 /\ InFlight(c)' = {nextFid'}
                 /\ fetches'[nextFid'].pc = "loadCodeAssist" ]_vars

\* the first fetch of a connection settled without a cached result and the
\* next call for the same connection started the second fetch
C4_Witness ==
    /\ ev.op = "call" /\ ev.upstream
    /\ ev.ret = [promise |-> 2]
    /\ nextFid = 2
    /\ DOMAIN fetches = {2}
    /\ pendingFetches[ev.conn] = 2
    /\ \A c \in Conns : projectIdCache[c] = NoEntry /\ (c # ev.conn => pendingFetches[c] = 0)

FailedResponse(resp) == "failed" \in DOMAIN resp \/ ~resp.ok

\* C5: the promise is never rejected; with a missing argument, a failed or
\* throwing loadCodeAssist or onboardUser, or no project ID, the call yields
\* null and the cache is exactly as before.
C5_NullOnFailure ==
    [][ /\ (fetches' = fetches /\ ev'.op = "call") =>
             \A c \in ConnArgs, t \in TokenArgs :
                 (/\ c = "" \/ t = ""
                  /\ GetProjectIdForConnection(c, t)) =>
                     /\ ev'.ret = Null
                     /\ ~ev'.upstream
                     /\ UNCHANGED <<projectIdCache, pendingFetches, fetches>>
        /\ Settles =>
             /\ ev'.state = "fulfilled"
             /\ (ev'.outcome.kind = "throw" \/ ~Truthy(ev'.outcome.value)) =>
                   /\ ev'.value = Null
                   /\ projectIdCache' = projectIdCache
        /\ fetches' # fetches =>
             \A f \in DOMAIN fetches :
                 /\ \A resp \in LoadCodeAssistResponses :
                      (/\ FailedResponse(resp)
                       /\ LoadCodeAssistResponse(f, resp)) =>
                          /\ Settled(f) /\ ev'.value = Null
                          /\ projectIdCache' = projectIdCache
                 /\ \A resp \in OnboardUserResponses :
                      (/\ \/ resp \in {[failed |-> "TypeError"],
                                       [ok |-> FALSE, status |-> 500],
                                       [ok |-> TRUE, data |-> [done |-> TRUE]]}
                          \/ /\ resp = [failed |-> "AbortError"]
                             /\ fetches[f].attempt = MAX_ATTEMPTS
                       /\ OnboardUserResponse(f, resp)) =>
                          /\ Settled(f) /\ ev'.value = Null
                          /\ projectIdCache' = projectIdCache ]_vars

\* a refresh of a stale entry failed with an exception: null, entry kept
C5_Witness ==
    /\ ev.op = "settle"
    /\ ev.outcome.kind = "throw"
    /\ ev.state = "fulfilled" /\ ev.value = Null
    /\ projectIdCache[ev.conn] # NoEntry
    /\ now - projectIdCache[ev.conn].fetchedAt >= CACHE_TTL_MS

\* C6: a call with both arguments returns the cached project ID, with no
\* upstream request, exactly when the connection has a cache entry younger
\* than one hour; otherwise it returns the promise of a fetch, which it
\* starts itself unless one is already in flight.
C6_CacheTTL ==
    [][ \A c \in Conns :
          GetProjectIdForConnection(c, "tok") =>
            IF projectIdCache[c] # NoEntry
               /\ now - projectIdCache[c].fetchedAt < 3600000
            THEN /\ ev'.ret = projectIdCache[c].projectId
                 /\ ~ev'.upstream
                 /\ fetches' = fetches
            ELSE /\ IsPromise(ev'.ret)
                 /\ ev'.ret.promise \in DOMAIN fetches'
                 /\ ev'.upstream = (InFlight(c) = {}) ]_vars

\* a call found an entry aged exactly one hour and fetched
C6_Witness ==
    /\ ev.op = "call" /\ ev.upstream
    /\ projectIdCache[ev.conn] # NoEntry
    /\ now - projectIdCache[ev.conn].fetchedAt = 3600000

NotDone(resp) == resp = [ok |-> TRUE, data |-> [done |-> FALSE]]

DoneWithProject(resp) ==
    /\ "failed" \notin DOMAIN resp
    /\ resp.ok
    /\ resp.data.done = TRUE
    /\ "response" \in DOMAIN resp.data

ProjectInResponse(resp) ==
    IF resp.data.response.obj.cloudaicompanionProject = Str("p1")
    THEN Str("p1") ELSE Str("p2")

PollingBounded ==
    \A f \in DOMAIN fetches :
        /\ fetches[f].requests <= 5
        /\ fetches[f].attempt = fetches[f].requests
        /\ fetches[f].pc = "sleep" => fetches[f].timer = 2000

\* C7: an onboardUser execution sends at most 5 requests, waits 2000 ms after
\* every not-done response, ends with null when the fifth attempt is not done
\* or timed out, ends with the project ID on the first done response that
\* carries one, and always ends.
C7_BoundedPolling ==
    /\ [][ /\ PollingBounded'
           /\ \A f \in DOMAIN fetches, resp \in OnboardUserResponses :
                (fetches' # fetches /\ OnboardUserResponse(f, resp)) =>
                  /\ NotDone(resp) =>
                       /\ fetches'[f].pc = "sleep"
                       /\ fetches'[f].timer = 2000
                       /\ fetches'[f].requests = fetches[f].requests
                  /\ DoneWithProject(resp) =>
                       /\ Settled(f)
                       /\ ev'.outcome = [kind |-> "return", value |-> ProjectInResponse(resp)]
                  /\ (resp = [failed |-> "AbortError"] /\ fetches[f].attempt = 5) =>
                       /\ Settled(f)
                       /\ ev'.outcome = [kind |-> "return", value |-> Null]
                  /\ (resp = [failed |-> "AbortError"] /\ fetches[f].attempt < 5) =>
                       /\ fetches'[f].pc = "onboardUser"
                       /\ fetches'[f].requests = fetches[f].requests + 1
           /\ \A f \in DOMAIN fetches :
                (fetches' # fetches /\ OnboardUserWake(f)) =>
                  IF fetches[f].attempt = 5
                  THEN /\ Settled(f)
                       /\ ev'.outcome = [kind |-> "return", value |-> Null]
                  ELSE /\ fetches'[f].pc = "onboardUser"
                       /\ fetches'[f].requests = fetches[f].requests + 1 ]_vars
    /\ \A f \in Fids : (f \in DOMAIN fetches) ~> (f \notin DOMAIN fetches)

\* five not-done or timed-out attempts ended with null
C7_Witness ==
    /\ ev.op = "settle" /\ ev.via = "onboardUser"
    /\ ev.exhausted
    /\ ev.outcome = [kind |-> "return", value |-> Null]
    /\ ev.value = Null
    /\ projectIdCache[ev.conn] = NoEntry

\* the failures of an attempt other than its 30 s abort: a network error, a
\* non-2xx status, done = true without a project ID
NonTimeoutFailures ==
    { [failed |-> "TypeError"],
      [ok |-> FALSE, status |-> 500],
      [ok |-> TRUE, data |-> [done |-> TRUE]] }

\* C21: in onboardUser a timed-out attempt before the fifth is followed at
\* once, with no delay, by the next request; any other failure on attempts
\* 1 to 4 ends the polling by throwing, with no further request; on the
\* fifth attempt every failure ends the polling with null; and a failed
\* attempt is followed by another request only when it timed out.
C21_OnlyTimeoutRetried ==
    [][ \A f \in DOMAIN fetches, resp \in OnboardUserResponses :
          (fetches' # fetches /\ OnboardUserResponse(f, resp)) =>
            /\ (resp = [failed |-> "AbortError"] /\ fetches[f].attempt < 5) =>
                  /\ f \in DOMAIN fetches'
                  /\ fetches'[f].pc = "onboardUser"
                  /\ fetches'[f].attempt = fetches[f].attempt + 1
                  /\ fetches'[f].requests = fetches[f].requests + 1
                  /\ fetches'[f].timer = 0
                  /\ now' = now
            /\ (resp \in NonTimeoutFailures /\ fetches[f].attempt < 5) =>
                  /\ Settled(f)
                  /\ ev'.via = "onboardUser"
                  /\ ev'.outcome = [kind |-> "throw"]
                  /\ ~ev'.exhausted
            /\ ( /\ resp \in NonTimeoutFailures \cup {[failed |-> "AbortError"]}
                 /\ fetches[f].attempt = 5 ) =>
                  /\ Settled(f)
                  /\ ev'.via = "onboardUser"
                  /\ ev'.outcome = [kind |-> "return", value |-> Null]
            /\ ( /\ f \in DOMAIN fetches'
                 /\ fetches'[f].requests > fetches[f].requests ) =>
                  resp = [failed |-> "AbortError"] ]_vars

\* an attempt before the fifth failed with something other than a timeout:
\* the polling ended by throwing, and the caller got null without a cache
\* entry
C21_Witness ==
    /\ ev.op = "settle" /\ ev.via = "onboardUser"
    /\ ev.outcome = [kind |-> "throw"]
    /\ ~ev.exhausted
    /\ ev.value = Null
    /\ projectIdCache[ev.conn] = NoEntry

\* C20: in the step that follows invalidateProjectId(c), a call for c that
\* yields a project ID has started its own fetch, and a fetch for c that
\* settles (it was started before the invalidation) leaves no cache entry for
\* later calls to return.
C20_NoStaleAfterInvalidate ==
    [][ \A c \in Conns :
          (ev.op = "invalidate" /\ ev.conn = c) =>
              /\ (ev'.op = "call" /\ ev'.conn = c /\ ev'.ret # Null) => ev'.upstream
              /\ (ev'.op = "settle" /\ ev'.conn = c) => projectIdCache'[c] = NoEntry
      ]_vars

(***************************************************************************)
(* Properties of the fallback orchestrator                                 *)
(***************************************************************************)
Terminal == ostate \in {"SUCCESS", "ABORT"}

\* C13: while every attempt has been classified fatal the request has made
\* at most N x M Executor invocations, and it ends in ABORT; whatever the
\* attempts end with, the request reaches SUCCESS or ABORT.
C13_FallbackTerminates ==
    /\ [](allFatal => attempts <= combo.models * combo.accounts)
    /\ []((Terminal /\ allFatal) => ostate = "ABORT")
    /\ [](attempts < AttemptCap)
    /\ <>Terminal

\* every account of a 2 x 2 combo failed fatally for the account
C13_Witness ==
    /\ combo = [models |-> 2, accounts |-> 2]
    /\ ostate = "ABORT"
    /\ allFatal
    /\ attempts = 4
    /\ fatalModels = {}

\* C14: an account gets at most one refresh; the first auth failure on it
\* leads to one refresh and then EXECUTE with the same account; an auth
\* failure after the refresh becomes fatal-for-account and the request
\* rotates; a candidate the request has moved on from is never executed.
C14_OneRefreshPerAccount ==
    [][ /\ refreshCalls' <= 1
        /\ (ostate = "CLASSIFY_FAILURE" /\ attemptOutcome = "retryable-auth") =>
              IF refreshCalls = 0
              THEN ostate' = "REFRESH_AND_RETRY_SAME_ACCOUNT"
              ELSE attemptOutcome' = "fatal-for-account" /\ ostate' = "ROTATE_ACCOUNT"
        /\ ostate = "REFRESH_AND_RETRY_SAME_ACCOUNT" =>
              /\ refreshCalls' = 1
              /\ ostate' = "EXECUTE"
              /\ candidate' = candidate
        /\ ostate = "ROTATE_ACCOUNT" => candidate \in left'
        /\ left \subseteq left'
        /\ ostate' = "EXECUTE" => candidate' \notin left'
      ]_vars

\* an account answered 401 or 403 again after its refresh and was given up
C14_Witness ==
    /\ ostate = "SELECT_CANDIDATE"
    /\ failure \in {"401", "403"}
    /\ attemptOutcome = "fatal-for-account"
    /\ attempts = 2
    /\ candidate = <<1, 2>>
    /\ left = {<<1, 1>>}

\* C15: no attempt is made on a model after an attempt on it was classified
\* fatal-for-model: that classification leads to ADVANCE_COMBO, which moves
\* to the first account of the next model and leaves every account of the
\* model behind.
C15_ModelNotRetried ==
    [][ /\ ostate' = "EXECUTE" => candidate'[1] \notin fatalModels'
        /\ (ostate = "CLASSIFY_FAILURE" /\ attemptOutcome = "fatal-for-model") =>
              /\ ostate' = "ADVANCE_COMBO"
              /\ candidate[1] \in fatalModels'
        /\ ostate = "ADVANCE_COMBO" =>
              /\ candidate' = <<candidate[1] + 1, 1>>
              /\ AccountsOf(candidate[1]) \subseteq left'
        /\ fatalModels \subseteq fatalModels'
      ]_vars

\* the first account of model 1 was model-fatal: model 2 is tried next and
\* the second account of model 1 never was
C15_Witness ==
    /\ combo = [models |-> 2, accounts |-> 2]
    /\ ostate = "EXECUTE"
    /\ candidate = <<2, 1>>
    /\ fatalModels = {1}
    /\ attempts = 1
    /\ <<1, 2>> \in left

(***************************************************************************)
(* Properties of the machine ID module                                     *)
(***************************************************************************)
\* C16: on one machine and environment, all the IDs getConsistentMachineId
\* has returned for a salt, in this run and in the runs before it, are one
\* and the same ID, whatever was called before in each run.
C16_SameIdPerSalt ==
    \A salt \in SaltArgs : Cardinality(ids[salt]) <= 1

(***************************************************************************)
(* Properties of the cloud sync initialization                             *)
(***************************************************************************)
\* call k returns in this step
Returns(k) ==
    /\ k \in DOMAIN syncCalls'
    /\ syncCalls'[k].pc = "done"
    /\ (k \in DOMAIN syncCalls => syncCalls[k].pc # "done")

\* C17: every call returns the value of the initialized flag, a call whose
\* initializeCloudSync threw returns false and leaves the flag false, the
\* flag never goes back from true to false, and a call that starts when the
\* flag is set does not invoke initializeCloudSync.
C17_ReturnsInitialized ==
    [][ /\ initialized => initialized'
        /\ \A k \in 1..MaxCalls :
              Returns(k) =>
                /\ syncCalls'[k].ret = initialized'
                /\ syncCalls'[k].threw => (syncCalls'[k].ret = FALSE /\ ~initialized')
                /\ (k \notin DOMAIN syncCalls /\ initialized) => ~syncCalls'[k].invoked
      ]_vars

\* call k starts in this step and invokes initializeCloudSync()
Invokes(k) ==
    /\ k \notin DOMAIN syncCalls
    /\ k \in DOMAIN syncCalls'
    /\ syncCalls'[k].invoked

\* the invocation of call j has failed
HasFailed(j) == syncCalls[j].pc = "done" /\ syncCalls[j].threw

\* the calls whose initializeCloudSync() has resolved
Succeeded ==
    {k \in DOMAIN syncCalls :
        syncCalls[k].pc = "done" /\ syncCalls[k].invoked /\ ~syncCalls[k].threw}

\* C22: under every interleaving of ensureCloudSyncInitialized calls, the
\* automatic call at module load included, a call invokes
\* initializeCloudSync only when every earlier invocation has failed, and at
\* most one invocation ever succeeds.
C22_InitializedOnce ==
    /\ [][ \A k \in 1..MaxCalls :
              Invokes(k) =>
                \A j \in DOMAIN syncCalls : syncCalls[j].invoked => HasFailed(j) ]_vars
    /\ [](Cardinality(Succeeded) <= 1)

====
